---- MODULE Spec2Model ----
(***************************************************************************)
(* A model of github.com/gwatts/embedfiles (src/embedfiles.go): the byte   *)
(* encoder fmtBytes, the manifest builder and renderer generate, the       *)
(* command's main, and the Open method of the generated source file.       *)
(*                                                                         *)
(* Strings and byte slices are sequences of byte values (0..255), so that  *)
(* file names, the text written to the data buffer and the bytes of the    *)
(* embedded files are all handled as the program handles them.             *)
(***************************************************************************)
EXTENDS Integers, Sequences, FiniteSets, TLC

VARIABLES
    globs,        \* the command line: for each pattern, what filepath.Glob gives
    fn,           \* the -filename flag
    fault,        \* the one operation of the environment that fails, if any
    now,          \* the clock read by time.Now
    pc,           \* where the program is
    gi,           \* generate: index of the pattern being expanded
    names,        \* generate: the matches of the current pattern
    ni,           \* generate: index of the match being processed
    f,            \* generate: the path of the file that is open
    name,         \* generate: the recorded name of that file
    ts,           \* generate: its modification time
    offset,       \* generate: running offset into the data
    fcount,       \* generate: number of files seen
    filenames,    \* generate: the recorded names
    filemap,      \* generate: recorded name -> entry
    databuf,      \* the writer fmtBytes writes to (generate's databuf)
    fin,          \* fmtBytes: the reader, its stream and read position
    bytesRead,    \* fmtBytes: result
    bytesWritten, \* fmtBytes: result
    ferr,         \* fmtBytes: result
    out,          \* what the destination writer w has received
    stderr,       \* the message written to standard error
    exitCode,     \* the exit code of the process, -1 while it runs
    runs,         \* how many times the program has been started (1 or 2)
    prev,         \* what the destination received in the previous run
    ioerr         \* the errors the environment has returned in this run

envVars == <<globs, fn, fault>>
genVars == <<gi, names, ni, f, name, ts, offset, fcount, filenames, filemap>>
fmtVars == <<fin, bytesRead, bytesWritten, ferr>>
endVars == <<out, stderr, exitCode>>
runVars == <<now, runs, prev>>
vars == <<envVars, genVars, fmtVars, endVars, runVars, pc, databuf, ioerr>>

(***************************************************************************)
(* Bounds of the model.                                                    *)
(***************************************************************************)
\* the number of glob patterns on the command line is at most MaxGlobs
MaxGlobs == 2
\* a Read returns at most MaxChunk bytes, or else all it can (a full
\* buffer, or what is left of the stream)
MaxChunk == 2

(***************************************************************************)
(* Program constants: the characters the program writes and tests.         *)
(***************************************************************************)
BufSize == 16
Slash == 47
Space == 32
Comma == 44
Newline == 10
CharZero == 48
CharX == 120
ExitFail == 100
ExitOK == 0
\* const digits = "0123456789abcdef"
Digits == <<48, 49, 50, 51, 52, 53, 54, 55, 56, 57, 97, 98, 99, 100, 101, 102>>

Min(a, b) == IF a < b THEN a ELSE b

(***************************************************************************)
(* fmtBytes: one line of output per chunk read.                            *)
(***************************************************************************)
\* a mutant of Token: the two hexadecimal digits in the wrong order
TokenSwapped(b) ==
    <<Space, CharZero, CharX, Digits[(b % 16) + 1], Digits[(b \div 16) + 1], Comma>>

\* append(fbuf, ' ', '0', 'x', digits[buf[i]>>4], digits[buf[i]&0xf], ',')
Token(b) ==
    <<Space, CharZero, CharX, Digits[(b \div 16) + 1], Digits[(b % 16) + 1], Comma>>

RECURSIVE Tokens(_)
\* the loop over the rn bytes of the chunk
Tokens(chunk) ==
    IF chunk = <<>> THEN <<>> ELSE Token(Head(chunk)) \o Tokens(Tail(chunk))

\* fbuf for one chunk: three spaces, the tokens, a newline
FmtLine(chunk) == <<Space, Space, Space>> \o Tokens(chunk) \o <<Newline>>

(***************************************************************************)
(* The reader and the writer of fmtBytes.  A Read into the 16-byte buffer  *)
(* returns 0..16 bytes and nil, io.EOF (only once the stream is used up)   *)
(* or, when the stream is the faulty one, an error.  A Write takes the     *)
(* whole line, or, when the writer is the faulty one, part of it and       *)
(* returns an error.                                                       *)
(***************************************************************************)
Remaining == Len(fin.data) - fin.pos

ReadSizes ==
    {n \in 0..Min(BufSize, Remaining) : n <= MaxChunk \/ n = Min(BufSize, Remaining)}

ReadErrs(rn) ==
    {"nil"}
        \cup (IF rn = Remaining THEN {"EOF"} ELSE {})
        \cup (IF fault.kind = "read" /\ fault.path = f THEN {"read error"} ELSE {})

WriteResults(line) ==
    {<<Len(line), "nil">>}
        \cup (IF fault.kind = "bufwrite"
              THEN {<<0, "write error">>, <<Len(line) - 1, "write error">>}
              ELSE {})

\* one iteration of the loop of fmtBytes, given what Read and Write return
FmtIter(rn, rerr, wn, werr) ==
    LET chunk == SubSeq(fin.data, fin.pos + 1, fin.pos + rn)
        fbuf == FmtLine(chunk)
    IN  /\ pc = "fmt"
        /\ fin' = [fin EXCEPT !.pos = fin.pos + rn]
        /\ databuf' = IF rn > 0 THEN databuf \o SubSeq(fbuf, 1, wn) ELSE databuf
        /\ bytesWritten' = IF rn > 0 THEN bytesWritten + wn ELSE bytesWritten
        /\ bytesRead' = IF rn > 0 /\ werr = "nil" THEN bytesRead + rn ELSE bytesRead
        /\ IF rn > 0 /\ werr # "nil"
           THEN ferr' = werr /\ pc' = "fmtret"
           ELSE IF rerr = "EOF"
                THEN ferr' = "nil" /\ pc' = "fmtret"
                ELSE IF rerr # "nil"
                     THEN ferr' = rerr /\ pc' = "fmtret"
                     ELSE ferr' = ferr /\ pc' = "fmt"
        /\ ioerr' = ioerr \cup ({rerr, werr} \ {"nil", "EOF"})

\* fmtBytes' loop: a Read, and for a chunk that is not empty a Write
FmtBytes ==
    \E rn \in ReadSizes :
        \E rerr \in ReadErrs(rn) :
            \E w \in (IF rn > 0
                      THEN WriteResults(FmtLine(SubSeq(fin.data, fin.pos + 1, fin.pos + rn)))
                      ELSE {<<0, "nil">>}) :
                /\ FmtIter(rn, rerr, w[1], w[2])
                /\ UNCHANGED <<envVars, genVars, endVars, runVars>>

(***************************************************************************)
(* The generated source file: its data array literal read back as the Go   *)
(* compiler reads it (white space and // comments skipped, every element a *)
(* literal 0xhh followed by a comma).                                      *)
(***************************************************************************)
HexDigits == {Digits[i] : i \in 1..16}

HexVal(c) == (CHOOSE i \in 1..16 : Digits[i] = c) - 1

RECURSIVE LineEnd(_, _)
\* the index of the newline that ends the line holding index i
LineEnd(buf, i) ==
    IF i > Len(buf) \/ buf[i] = Newline THEN i ELSE LineEnd(buf, i + 1)

SyntaxError == -1

RECURSIVE DecodeFrom(_, _)
DecodeFrom(buf, i) ==
    IF i > Len(buf) THEN <<>>
    ELSE IF buf[i] \in {Space, Newline} THEN DecodeFrom(buf, i + 1)
    ELSE IF buf[i] = Slash /\ i + 1 <= Len(buf) /\ buf[i + 1] = Slash
         THEN DecodeFrom(buf, LineEnd(buf, i) + 1)
    ELSE IF /\ i + 4 <= Len(buf)
            /\ buf[i] = CharZero
            /\ buf[i + 1] = CharX
            /\ buf[i + 2] \in HexDigits
            /\ buf[i + 3] \in HexDigits
            /\ buf[i + 4] = Comma
         THEN <<16 * HexVal(buf[i + 2]) + HexVal(buf[i + 3])>> \o DecodeFrom(buf, i + 5)
    ELSE <<SyntaxError>>

\* the elements of the array literal whose text is buf
Decode(buf) == DecodeFrom(buf, 1)

(***************************************************************************)
(* fmtBytes on its own: any stream of FmtInputs, a reader or a writer that *)
(* may fail.                                                               *)
(***************************************************************************)
LongInput == [i \in 1..(BufSize + 1) |-> (i * 15) % 256]

FmtInputs == {<<>>, <<0>>, <<255, 10>>, <<1, 2, 3>>, <<16, 171, 9, 160>>, LongInput}

NoFile == <<>>

NoOutput ==
    [written |-> FALSE, time |-> 0, dataSize |-> 0, filenames |-> <<>>,
     entries |-> <<>>, dataLen |-> 0, data |-> <<>>]

EmptyMap == [n \in {} |-> 0]

NoContent == [written |-> FALSE, filenames |-> <<>>, files |-> EmptyMap, data |-> <<>>]

FmtInit ==
    /\ globs = <<>>
    /\ fn = "-"
    /\ fault \in {[kind |-> k, path |-> NoFile] : k \in {"none", "read", "bufwrite"}}
    /\ now = 0
    /\ pc = "fmt"
    /\ gi = 1 /\ names = <<>> /\ ni = 1
    /\ f = NoFile /\ name = <<>> /\ ts = 0
    /\ offset = 0 /\ fcount = 0
    /\ filenames = <<>> /\ filemap = EmptyMap
    /\ databuf = <<>>
    /\ fin \in {[data |-> d, pos |-> 0] : d \in FmtInputs}
    /\ bytesRead = 0 /\ bytesWritten = 0 /\ ferr = "nil"
    /\ out = NoOutput /\ stderr = "" /\ exitCode = -1
    /\ runs = 1 /\ prev = NoContent /\ ioerr = {}

FmtNext == FmtBytes

SpecFmt == FmtInit /\ [][FmtNext]_vars

(***************************************************************************)
(* The file system and the command line.  Four paths: "a", "B", "/a" and   *)
(* "//a" (the last two name one file).                                     *)
(***************************************************************************)
PA == <<97>>
PB == <<66>>
PSA == <<47, 97>>
PSSA == <<47, 47, 97>>

Paths == {PA, PB, PSA, PSSA}

\* the bytes a Read of the open file yields, in order
FileContent(p) ==
    CASE p = PA -> <<1, 171>>
      [] p = PB -> <<>>
      [] p \in {PSA, PSSA} -> <<255>>

\* fi.ModTime().Unix()
ModTime(p) ==
    CASE p = PA -> 100
      [] p = PB -> 200
      [] p \in {PSA, PSSA} -> 300

\* what filepath.Glob returns for a pattern: an error, or the matches
GlobResults ==
    {[bad |-> TRUE, names |-> <<>>]}
        \cup {[bad |-> FALSE, names |-> ns] :
                ns \in {<<>>, <<PA>>, <<PSA>>, <<PSSA>>, <<PB, PA>>}}

SeqsUpTo(S, n) == UNION {[1..k -> S] : k \in 0..n}

\* the file that cannot be opened, read or examined, when one cannot
FaultPaths == {PA}

Faults ==
    {[kind |-> k, path |-> NoFile] : k \in {"none", "create", "write"}}
        \cup {[kind |-> k, path |-> p] : k \in {"open", "stat", "read"}, p \in FaultPaths}

\* the destination and the fault: a file when the fault, if any, is in
\* writing, standard output when it is in reading
Envs ==
    {[fn |-> IF ft.path = NoFile THEN "assets.go" ELSE "-", fault |-> ft] : ft \in Faults}

(***************************************************************************)
(* Helpers of generate.                                                    *)
(***************************************************************************)
\* strings.TrimPrefix
TrimPrefix(s, prefix) ==
    IF Len(s) >= Len(prefix) /\ SubSeq(s, 1, Len(prefix)) = prefix
    THEN SubSeq(s, Len(prefix) + 1, Len(s))
    ELSE s

\* Go's < on strings: byte by byte, a proper prefix first
RECURSIVE StrLess(_, _)
StrLess(a, b) ==
    IF b = <<>> THEN FALSE
    ELSE IF a = <<>> THEN TRUE
    ELSE IF Head(a) # Head(b) THEN Head(a) < Head(b)
    ELSE StrLess(Tail(a), Tail(b))

RECURSIVE Insert(_, _)
Insert(x, sorted) ==
    IF sorted = <<>> THEN <<x>>
    ELSE IF StrLess(x, Head(sorted)) THEN <<x>> \o sorted
    ELSE <<Head(sorted)>> \o Insert(x, Tail(sorted))

\* a mutant of SortStrings: the list is left in the order of processing
SortStringsNone(list) == list

RECURSIVE SortStrings(_)
\* sort.Strings
SortStrings(list) ==
    IF list = <<>> THEN <<>> ELSE Insert(Head(list), SortStrings(Tail(list)))

\* fmt.Fprintln(databuf, "\n    //", name)
Comment(p) ==
    <<Newline, Space, Space, Space, Space, Slash, Slash, Space>> \o p \o <<Newline>>

\* name = strings.TrimPrefix(name, "/")
RecordedName(p) == TrimPrefix(p, <<Slash>>)

\* a mutant of StatTime: the time of generation instead of the file's
StatTimeNow(p) == now

\* if fi, err := f.Stat(); err == nil { ts = fi.ModTime().Unix() }
StatTime(p) ==
    IF fault.kind = "stat" /\ fault.path = p THEN 0 ELSE ModTime(p)

\* a mutant of NewEntry: the offset after the file instead of before it
NewEntryAfter(t, off, br) == [ts |-> t, offset |-> off + br, size |-> br]

\* entry{ts: ts, offset: offset, size: br}
NewEntry(t, off, br) == [ts |-> t, offset |-> off, size |-> br]

\* a mutant of Put: an entry already in the map is kept
PutFirst(m, k, v) ==
    [n \in DOMAIN m \cup {k} |-> IF n \in DOMAIN m THEN m[n] ELSE v]

\* filemap[name] = entry
Put(m, k, v) ==
    [n \in DOMAIN m \cup {k} |-> IF n = k THEN v ELSE m[n]]

\* the orders in which a range over a map may visit its keys
Perms(S) ==
    {s \in [1..Cardinality(S) -> S] : \A i, j \in 1..Cardinality(S) : i # j => s[i] # s[j]}

\* os.Exit(100) after the message on standard error
Fail(msg) ==
    /\ stderr' = msg
    /\ exitCode' = ExitFail
    /\ pc' = "exit"

(***************************************************************************)
(* main and generate.                                                      *)
(***************************************************************************)
\* main up to the call of generate
Main ==
    /\ pc = "main"
    /\ IF Len(globs) = 0
       THEN /\ Fail("No globs specified")
            /\ UNCHANGED <<out, ioerr>>
       ELSE IF fn # "" /\ fn # "-" /\ fault.kind = "create"
            THEN /\ Fail("Failed to open file for write")
                 /\ ioerr' = ioerr \cup {"create error"}
                 /\ UNCHANGED out
            ELSE /\ pc' = "glob"
                 /\ out' = IF fn # "" /\ fn # "-" THEN NoOutput ELSE out
                 /\ UNCHANGED <<stderr, exitCode, ioerr>>
    /\ UNCHANGED <<envVars, genVars, fmtVars, runVars, databuf>>

\* generate: filepath.Glob on the next pattern
Glob ==
    /\ pc = "glob"
    /\ gi <= Len(globs)
    /\ IF globs[gi].bad
       THEN /\ Fail("syntax error in pattern")
            /\ ioerr' = ioerr \cup {"glob error"}
            /\ UNCHANGED <<gi, names, ni>>
       ELSE /\ names' = globs[gi].names
            /\ ni' = 1
            /\ IF globs[gi].names = <<>>
               THEN gi' = gi + 1 /\ pc' = "glob"
               ELSE gi' = gi /\ pc' = "names"
            /\ UNCHANGED <<stderr, exitCode, ioerr>>
    /\ UNCHANGED <<envVars, f, name, ts, offset, fcount, filenames, filemap>>
    /\ UNCHANGED <<fmtVars, runVars, databuf, out>>

\* generate: the loop body up to the call of fmtBytes
OpenFile ==
    /\ pc = "names"
    /\ LET p == names[ni]
       IN  /\ fcount' = fcount + 1
           /\ databuf' = databuf \o Comment(p)
           /\ IF fault.kind = "open" /\ fault.path = p
              THEN /\ Fail("Failed to read")
                   /\ ioerr' = ioerr \cup {"open error"}
                   /\ UNCHANGED <<f, name, ts, filenames, fmtVars>>
              ELSE /\ f' = p
                   /\ name' = RecordedName(p)
                   /\ filenames' = Append(filenames, RecordedName(p))
                   /\ ts' = StatTime(p)
                   /\ fin' = [data |-> FileContent(p), pos |-> 0]
                   /\ bytesRead' = 0
                   /\ bytesWritten' = 0
                   /\ ferr' = "nil"
                   /\ pc' = "fmt"
                   /\ UNCHANGED <<stderr, exitCode, ioerr>>
    /\ UNCHANGED <<envVars, gi, names, ni, offset, filemap, runVars, out>>

\* generate: the loop body after fmtBytes has returned
Record ==
    /\ pc = "fmtret"
    /\ f' = NoFile
    /\ IF ferr # "nil"
       THEN /\ Fail("Failed to process")
            /\ UNCHANGED <<gi, ni, offset, filemap>>
       ELSE /\ filemap' = Put(filemap, name, NewEntry(ts, offset, bytesRead))
            /\ offset' = offset + bytesRead
            /\ IF ni < Len(names)
               THEN ni' = ni + 1 /\ gi' = gi /\ pc' = "names"
               ELSE ni' = ni /\ gi' = gi + 1 /\ pc' = "glob"
            /\ UNCHANGED <<stderr, exitCode>>
    /\ UNCHANGED <<envVars, names, name, ts, fcount, filenames>>
    /\ UNCHANGED <<fmtVars, runVars, databuf, out, ioerr>>

\* what generate writes to w: the header (with the time and the size of the
\* data array), the filename list, the map entries in the order ord, the data
Rendered(list, m, ord, off, buf) ==
    [written |-> TRUE, time |-> now, dataSize |-> off, filenames |-> list,
     entries |-> [i \in 1..Len(ord) |->
                    [fn |-> ord[i], ts |-> m[ord[i]].ts,
                     offset |-> m[ord[i]].offset, size |-> m[ord[i]].size]],
     dataLen |-> off, data |-> buf]

\* a mutant of NoFilesFound: the check is missing
NoFilesFoundNever(fc) == FALSE

\* if fcount == 0
NoFilesFound(fc) == fc = 0

\* generate after the loop, and main's exit
Finish ==
    /\ pc = "glob"
    /\ gi > Len(globs)
    /\ IF NoFilesFound(fcount)
       THEN /\ Fail("No files found")
            /\ UNCHANGED <<filenames, out, ioerr>>
       ELSE /\ filenames' = SortStrings(filenames)
            /\ IF fault.kind = "write"
               THEN /\ out' = out
                    /\ ioerr' = ioerr \cup {"write error"}
               ELSE /\ \E ord \in Perms(DOMAIN filemap) :
                         out' = Rendered(SortStrings(filenames), filemap, ord,
                                         offset, databuf)
                    /\ ioerr' = ioerr
            /\ stderr' = stderr
            /\ exitCode' = ExitOK
            /\ pc' = "exit"
    /\ UNCHANGED <<envVars, gi, names, ni, f, name, ts, offset, fcount, filemap>>
    /\ UNCHANGED <<fmtVars, runVars, databuf>>

(***************************************************************************)
(* The generated source file as a Go value: the filenames slice, the files *)
(* map and the data array of the variable it declares, and its Open.       *)
(***************************************************************************)
\* files: map[string]struct{ts int64; offset int; size int}{ ... }
GenFiles(o) ==
    [n \in {o.entries[i].fn : i \in 1..Len(o.entries)} |->
        LET e == o.entries[CHOOSE i \in 1..Len(o.entries) : o.entries[i].fn = n]
        IN  [ts |-> e.ts, offset |-> e.offset, size |-> e.size]]

\* data: [DataSize]byte{ ... }: the elements given, the rest zero
GenData(o) ==
    LET elems == Decode(o.data)
    IN  [i \in 1..o.dataLen |-> IF i <= Len(elems) THEN elems[i] ELSE 0]

NotExist == [ok |-> FALSE, bytes |-> <<>>, size |-> 0, ts |-> 0]

\* a mutant of Open: the name is looked up as it was given
OpenNoTrim(o, filename) ==
    IF filename \notin DOMAIN GenFiles(o)
    THEN NotExist
    ELSE LET entry == GenFiles(o)[filename]
         IN  [ok |-> TRUE,
              bytes |-> SubSeq(GenData(o), entry.offset + 1, entry.offset + entry.size),
              size |-> entry.size,
              ts |-> entry.ts]

\* Open of the generated file: the reader's bytes and the FileInfo's fields
Open(o, filename) ==
    LET fname == TrimPrefix(filename, <<Slash>>)
    IN  IF fname \notin DOMAIN GenFiles(o)
        THEN NotExist
        ELSE LET entry == GenFiles(o)[fname]
             IN  [ok |-> TRUE,
                  bytes |-> SubSeq(GenData(o), entry.offset + 1, entry.offset + entry.size),
                  size |-> entry.size,
                  ts |-> entry.ts]

\* the manifest and the data of a generated file, its text apart
Content(o) ==
    IF o.written
    THEN [written |-> TRUE, filenames |-> o.filenames, files |-> GenFiles(o),
          data |-> GenData(o)]
    ELSE NoContent

\* the command is run a second time over the same inputs
Rerun ==
    /\ pc = "exit"
    /\ exitCode = ExitOK
    /\ runs = 1
    /\ runs' = runs + 1
    /\ now' = now + 1
    /\ prev' = Content(out)
    /\ out' = IF fn # "" /\ fn # "-" THEN out ELSE NoOutput
    /\ pc' = "main"
    /\ gi' = 1 /\ names' = <<>> /\ ni' = 1
    /\ f' = NoFile /\ name' = <<>> /\ ts' = 0
    /\ offset' = 0 /\ fcount' = 0
    /\ filenames' = <<>> /\ filemap' = EmptyMap
    /\ databuf' = <<>>
    /\ fin' = [data |-> <<>>, pos |-> 0]
    /\ bytesRead' = 0 /\ bytesWritten' = 0 /\ ferr' = "nil"
    /\ stderr' = "" /\ exitCode' = -1
    /\ ioerr' = {}
    /\ UNCHANGED envVars

Init ==
    /\ globs \in SeqsUpTo(GlobResults, MaxGlobs)
    /\ \E e \in Envs : fn = e.fn /\ fault = e.fault
    /\ now = 1
    /\ pc = "main"
    /\ gi = 1 /\ names = <<>> /\ ni = 1
    /\ f = NoFile /\ name = <<>> /\ ts = 0
    /\ offset = 0 /\ fcount = 0
    /\ filenames = <<>> /\ filemap = EmptyMap
    /\ databuf = <<>>
    /\ fin = [data |-> <<>>, pos |-> 0]
    /\ bytesRead = 0 /\ bytesWritten = 0 /\ ferr = "nil"
    /\ out = NoOutput /\ stderr = "" /\ exitCode = -1
    /\ runs = 1 /\ prev = NoContent /\ ioerr = {}

Next ==
    \/ Main
    \/ Glob
    \/ OpenFile
    \/ FmtBytes
    \/ Record
    \/ Finish
    \/ Rerun

Spec == Init /\ [][Next]_vars

(***************************************************************************)
(* What the claims speak of.                                               *)
(***************************************************************************)
RECURSIVE MatchesFrom(_)
MatchesFrom(i) ==
    IF i > Len(globs) THEN <<>> ELSE globs[i].names \o MatchesFrom(i + 1)

\* every match of every pattern, in the order generate meets them
MatchList == MatchesFrom(1)

\* the name a path is to be recorded under: one leading "/" taken off
Stripped(p) == IF p # <<>> /\ p[1] = Slash THEN Tail(p) ELSE p

SizeOf(p) == Len(FileContent(p))

RECURSIVE SumSizes(_)
\* the sizes of the first k matches, added up
SumSizes(k) == IF k = 0 THEN 0 ELSE SumSizes(k - 1) + SizeOf(MatchList[k])

\* the index of the last match recorded under the name n
LastOf(n) ==
    CHOOSE j \in 1..Len(MatchList) :
        /\ Stripped(MatchList[j]) = n
        /\ \A k \in (j + 1)..Len(MatchList) : Stripped(MatchList[k]) # n

\* a <= b by raw bytes, stated without recursion
LexLeq(a, b) ==
    \E k \in 0..Min(Len(a), Len(b)) :
        /\ SubSeq(a, 1, k) = SubSeq(b, 1, k)
        /\ \/ k = Len(a)
           \/ k < Len(a) /\ k < Len(b) /\ a[k + 1] < b[k + 1]

Range(seq) == {seq[i] : i \in 1..Len(seq)}

\* generate is between two files, or has returned nil
BetweenFiles == pc \in {"names", "glob"} \/ (pc = "exit" /\ exitCode = ExitOK)

Succeeded == pc = "exit" /\ exitCode = ExitOK

\* the names Open is tried with
ProbeNames == Paths \cup {<<>>, <<99>>, <<97, 47, 97>>}

\* C1: after any prefix of the files, offset is the sum of their sizes and the
\* number of byte literals in databuf; file i's literals are its bytes and lie
\* at [sum of the sizes before it, + its size); the file just recorded has that
\* offset and size in filemap; the data array is declared with the total size.
C1_Layout ==
    BetweenFiles =>
        /\ offset = SumSizes(fcount)
        /\ Len(Decode(databuf)) = offset
        /\ \A i \in 1..fcount :
              SubSeq(Decode(databuf), SumSizes(i - 1) + 1, SumSizes(i - 1) + SizeOf(MatchList[i]))
                  = FileContent(MatchList[i])
        /\ fcount >= 1 =>
              /\ name \in DOMAIN filemap
              /\ filemap[name].offset = SumSizes(fcount - 1)
              /\ filemap[name].size = SizeOf(MatchList[fcount])
              /\ filemap[name].offset + filemap[name].size = offset
        /\ (pc = "exit" /\ out.written) =>
              /\ out.dataLen = SumSizes(Len(MatchList))
              /\ out.dataSize = out.dataLen

\* three files or more were laid out, an empty one among them, and rendered
C1_Witness ==
    /\ Succeeded /\ out.written
    /\ fcount >= 3
    /\ PB \in Range(MatchList)
    /\ filemap[PB].offset > 0
    /\ offset > SizeOf(PA)

\* C2: after a run that succeeded and wrote its output, Open of every recorded
\* name succeeds, yields the bytes read from the file last recorded under that
\* name, and reports their number as the size.
C2_OpenRecorded ==
    (Succeeded /\ out.written) =>
        \A i \in 1..Len(MatchList) :
            LET n == Stripped(MatchList[i])
                r == Open(out, n)
            IN  /\ r.ok
                /\ r.bytes = FileContent(MatchList[LastOf(n)])
                /\ r.size = Len(r.bytes)

\* C3: a name processed twice is read and encoded twice (both copies are in
\* databuf, at their places), and the one entry under the name, in filemap and
\* in the rendered map, has the offset and the size of the last occurrence.
C3_LastWins ==
    Succeeded =>
        \A i, j \in 1..Len(MatchList) :
            (i < j /\ Stripped(MatchList[i]) = Stripped(MatchList[j])
                   /\ j = LastOf(Stripped(MatchList[j]))) =>
                LET n == Stripped(MatchList[j])
                    last == [offset |-> SumSizes(j - 1), size |-> SizeOf(MatchList[j])]
                IN  /\ SubSeq(Decode(databuf), SumSizes(i - 1) + 1, SumSizes(i))
                          = FileContent(MatchList[i])
                    /\ SubSeq(Decode(databuf), SumSizes(j - 1) + 1, SumSizes(j))
                          = FileContent(MatchList[j])
                    /\ Len(Decode(databuf)) = SumSizes(Len(MatchList))
                    /\ n \in DOMAIN filemap
                    /\ filemap[n].offset = last.offset
                    /\ filemap[n].size = last.size
                    /\ out.written =>
                          /\ Cardinality({k \in 1..Len(out.entries) : out.entries[k].fn = n}) = 1
                          /\ \A k \in 1..Len(out.entries) :
                                out.entries[k].fn = n =>
                                    /\ out.entries[k].offset = last.offset
                                    /\ out.entries[k].size = last.size

\* "/a" then "a": one name, two files of different content and size
C3_Witness ==
    /\ Succeeded /\ out.written
    /\ MatchList = <<PSA, PA>>
    /\ filemap[PA].offset = SizeOf(PSA)

\* C4: when fmtBytes returns nil on a stream that is not empty, the literals it
\* wrote, read back, are the bytes of the stream, as many as the stream has and
\* as bytesRead says, however the reads split the stream.
C4_RoundTrip ==
    (pc = "fmtret" /\ ferr = "nil" /\ Len(fin.data) > 0) =>
        /\ Decode(databuf) = fin.data
        /\ Len(Decode(databuf)) = Len(fin.data)
        /\ bytesRead = Len(fin.data)

\* the long stream, read as a full buffer of 16 bytes and one more byte
C4_Witness ==
    /\ pc = "fmtret" /\ ferr = "nil"
    /\ fin.data = LongInput
    /\ Len(databuf) = (4 + 6 * BufSize) + (4 + 6)
    /\ databuf[4 + 6 * BufSize] = Newline

\* C5: when every pattern is valid and none matches, generate, once called,
\* fails with "No files found" and nothing is written to the destination.
C5_NoFiles ==
    (/\ pc = "exit"
     /\ Len(globs) > 0
     /\ \A i \in 1..Len(globs) : ~globs[i].bad /\ globs[i].names = <<>>
     /\ fault.kind # "create") =>
        /\ stderr = "No files found"
        /\ exitCode = ExitFail
        /\ out = NoOutput

\* two valid patterns, no match
C5_Witness ==
    /\ pc = "exit"
    /\ Len(globs) = 2
    /\ \A i \in 1..Len(globs) : ~globs[i].bad /\ globs[i].names = <<>>
    /\ stderr = "No files found"

\* a fatal error of the claim's list has occurred in this run
Fatal ==
    \/ Len(globs) = 0
    \/ ioerr # {}
    \/ gi > Len(globs) /\ fcount = 0

\* C6: the run ends with exit code 100 and a message on standard error if a
\* fatal error occurred, and with exit code 0 only if none did.
C6_ExitCode ==
    pc = "exit" =>
        /\ Fatal => (exitCode = ExitFail /\ stderr # "")
        /\ exitCode = ExitOK => ~Fatal

\* C7: Open of "/" + n is Open of n, for every name n.
C7_AnyName ==
    (Succeeded /\ out.written) =>
        \A n \in ProbeNames : Open(out, <<Slash>> \o n) = Open(out, n)

\* C7, amended: Open of "/" + n is Open of n, for every name n that does not
\* itself begin with "/".
C7_OneSlash ==
    (Succeeded /\ out.written) =>
        \A n \in ProbeNames :
            (n = <<>> \/ n[1] # Slash) => Open(out, <<Slash>> \o n) = Open(out, n)

\* "/a" opens the file recorded as "a", in a manifest that also holds "/a"
C7_Witness ==
    /\ Succeeded /\ out.written
    /\ {PA, PSA} \subseteq DOMAIN GenFiles(out)
    /\ Open(out, PSA).ok
    /\ Open(out, PSA) = Open(out, PA)
    /\ ~Open(out, <<Slash>> \o PB).ok

\* C8: a second run over the same inputs that succeeds as the first did leaves
\* the same filename list, the same mapping and the same data as the first.
C8_SameContent ==
    (runs >= 2 /\ Succeeded) => Content(out) = prev

\* a second run of three files, two of them with bytes
C8_Witness ==
    /\ runs = 2 /\ pc = "exit" /\ out.written
    /\ Len(out.entries) >= 2
    /\ Len(out.filenames) >= 3
    /\ out.dataLen > SizeOf(PA)
    /\ prev.written

\* C9: after a run that succeeded, the filename list is in ascending order of
\* raw bytes, holds one name per file processed, and the recorded name of every
\* file processed is in the list, in filemap and in the rendered list and map.
C9_Sorted ==
    Succeeded =>
        /\ \A i, j \in 1..Len(filenames) : i < j => LexLeq(filenames[i], filenames[j])
        /\ Len(filenames) = Len(MatchList)
        /\ \A i \in 1..Len(MatchList) :
              /\ Stripped(MatchList[i]) \in Range(filenames)
              /\ Stripped(MatchList[i]) \in DOMAIN filemap
        /\ out.written =>
              /\ out.filenames = filenames
              /\ \A i \in 1..Len(MatchList) :
                    Stripped(MatchList[i]) \in DOMAIN GenFiles(out)

\* "a" was processed before "//a", whose name "/a" sorts first
C9_Witness ==
    /\ Succeeded /\ out.written
    /\ MatchList = <<PA, PSSA>>
    /\ filenames = <<PSA, PA>>

\* C10: when fmtBytes returns, err is the first error met (nil after
\* end-of-stream), bytesRead is the number of bytes the reader gave and
\* bytesWritten the number the writer took.
C10_Results ==
    pc = "fmtret" =>
        /\ (ioerr = {} => ferr = "nil")
        /\ (ioerr # {} => ferr \in ioerr)
        /\ bytesRead = fin.pos
        /\ bytesWritten = Len(databuf)

====
